---- MODULE Spec2Model ----
(***************************************************************************)
(* A model of bootmgr (src/bootmgr.py): the reconciliation of the EFI boot *)
(* entries with bootmgr.toml through the efibootmgr utility.               *)
(*                                                                         *)
(* The firmware (boot entry table and BootOrder) is the environment; the   *)
(* engine is BootMgr: __init__ (load_config, load_state), sync, create,    *)
(* delete, deactivate and execute, with parse_efibootmgr and dump as pure  *)
(* operators.  Every invocation of the utility is one step.                *)
(***************************************************************************)
EXTENDS Integers, Sequences, FiniteSets, TLC

\* ------------------------------------------------------------------ bounds
\* Boot numbers of the initial firmware table are drawn from 1..MaxNum.
MaxNum == 3
\* Most entries of the initial firmware table.
MaxEntries == 2
\* Number of consecutive runs of main() that are followed.
MaxRuns == 2
\* Most lines, the order line apart, of a report given to the parser alone.
MaxLines == 3
\* Most keys, nested ones counted, of a parameter tree given to dump alone.
MaxNodes == 4
\* Most calls of load_config on one manager.
MaxLoads == 3

\* The labels of boot entries; the configuration declares labels of
\* CfgLabels, so that entries labelled C are never managed.
Labels == {"A", "B", "C"}
CfgLabels == {"A", "B"}

\* --------------------------------------------------------- ordered mappings
\* An OrderedDict is a sequence of [label, entry] pairs with distinct labels.
Reverse(s) == [i \in 1..Len(s) |-> s[Len(s) + 1 - i]]

Keys(d) == [i \in 1..Len(d) |-> d[i].label]

HasKey(d, k) == \E i \in 1..Len(d) : d[i].label = k

Get(d, k) == d[CHOOSE i \in 1..Len(d) : d[i].label = k].entry

\* d[k] = v : an existing key keeps its position, a new key goes last.
SetItem(d, k, v) ==
    IF HasKey(d, k)
    THEN [i \in 1..Len(d) |-> IF d[i].label = k THEN [label |-> k, entry |-> v] ELSE d[i]]
    ELSE Append(d, [label |-> k, entry |-> v])

\* Mutant of MoveToEnd: the entry is moved to the front.
MoveToFront(d, k) ==
    LET i == CHOOSE j \in 1..Len(d) : d[j].label = k
    IN  <<d[i]>> \o SubSeq(d, 1, i - 1) \o SubSeq(d, i + 1, Len(d))

\* d.move_to_end(k)
MoveToEnd(d, k) ==
    LET i == CHOOSE j \in 1..Len(d) : d[j].label = k
    IN  SubSeq(d, 1, i - 1) \o SubSeq(d, i + 1, Len(d)) \o <<d[i]>>

\* ------------------------------------------------------------------- dump
\* A parameter tree is a sequence of [k, v] items; v is a tagged value:
\* [t |-> "bool", b], [t |-> "str", s], [t |-> "int", n] or
\* [t |-> "tree", items].
Str(v) == IF v.t = "int" THEN ToString(v.n) ELSE v.s

\* Mutant of _dump: a false value is emitted like a true one.
RECURSIVE _dumpNoNegation(_, _)
_dumpNoNegation(params, prefix) ==
    IF params = <<>> THEN <<>>
    ELSE LET k == Head(params).k
             v == Head(params).v
             toks == CASE v.t = "bool" -> <<prefix \o k>>
                       [] v.t = "tree" -> _dumpNoNegation(v.items, k \o ".")
                       [] OTHER -> <<prefix \o k \o "=" \o Str(v)>>
         IN  toks \o _dumpNoNegation(Tail(params), prefix)

RECURSIVE _dump(_, _)
_dump(params, prefix) ==
    IF params = <<>> THEN <<>>
    ELSE LET k == Head(params).k
             v == Head(params).v
             toks == CASE v.t = "bool" /\ v.b -> <<prefix \o k>>
                       [] v.t = "bool" /\ ~v.b -> <<prefix \o "no" \o k>>
                       [] v.t = "tree" -> _dump(v.items, k \o ".")
                       [] OTHER -> <<prefix \o k \o "=" \o Str(v)>>
         IN  toks \o _dump(Tail(params), prefix)

RECURSIVE Join(_, _)
Join(toks, sep) ==
    IF toks = <<>> THEN ""
    ELSE IF Len(toks) = 1 THEN toks[1]
    ELSE toks[1] \o sep \o Join(Tail(toks), sep)

dump(params) == Join(_dump(params, ""), " ")

\* ----------------------------------------------------- the utility's report
\* A boot number as efibootmgr prints it.
Bootnum(n) == IF n < 10 THEN "000" \o ToString(n) ELSE "00" \o ToString(n)

\* A report is a sequence of lines.  A line is one of
\*   [kind |-> "order", ids]            "BootOrder: 0001,0003"
\*   [kind |-> "entry", id, label]      "Boot0001* Linux"
\*   [kind |-> "other"]                 anything else
OrderLine(ids) == [kind |-> "order", ids |-> ids]
EntryLine(id, label) == [kind |-> "entry", id |-> id, label |-> label]
OtherLine == [kind |-> "other"]

\* ------------------------------------------------------- parse_efibootmgr
\* The scan of the lines: the entries in first-seen order (a label seen again
\* keeps its place and takes the later id) and the ids of the last order line.
RECURSIVE ScanLines(_, _, _)
ScanLines(lines, entries, order) ==
    IF lines = <<>> THEN [entries |-> entries, order |-> order]
    ELSE LET line == Head(lines)
         IN  CASE line.kind = "order" -> ScanLines(Tail(lines), entries, line.ids)
               [] line.kind = "entry" ->
                     ScanLines(Tail(lines), SetItem(entries, line.label, line.id), order)
               [] OTHER -> ScanLines(Tail(lines), entries, order)

\* for label, entry in entries.items(): if entry == bootnum: move_to_end; break
MoveFirstMatch(entries, bootnum) ==
    IF \E i \in 1..Len(entries) : entries[i].entry = bootnum
    THEN LET i == CHOOSE j \in 1..Len(entries) :
                     /\ entries[j].entry = bootnum
                     /\ \A m \in 1..(j - 1) : entries[m].entry # bootnum
         IN  MoveToEnd(entries, entries[i].label)
    ELSE entries

RECURSIVE ReorderBy(_, _)
ReorderBy(order, entries) ==
    IF order = <<>> THEN entries
    ELSE ReorderBy(Tail(order), MoveFirstMatch(entries, Head(order)))

parse_efibootmgr(stdout) ==
    LET scan == ScanLines(stdout, <<>>, <<>>)
    IN  ReorderBy(scan.order, scan.entries)

\* ------------------------------------------------------------ the firmware
\* The boot entry table is a sequence of [num, label, active] in ascending
\* num (the order efibootmgr lists the entries in); BootOrder is a sequence
\* of nums.
RECURSIVE SortedNums(_)
SortedNums(S) ==
    IF S = {} THEN <<>>
    ELSE LET m == CHOOSE x \in S : \A y \in S : x <= y
         IN  <<m>> \o SortedNums(S \ {m})

Nums(t) == {t[i].num : i \in 1..Len(t)}

\* The text efibootmgr prints after every command: the order line (when a
\* BootOrder is set) and one line per entry.
Report(t, o) ==
    <<IF o = <<>> THEN OtherLine ELSE OrderLine([i \in 1..Len(o) |-> Bootnum(o[i])])>>
    \o [i \in 1..Len(t) |-> EntryLine(Bootnum(t[i].num), t[i].label)]

\* --create: the entry gets the lowest free number and goes first in BootOrder.
FreeNum(t) == CHOOSE n \in 1..(Len(t) + 1) : n \notin Nums(t) /\ \A m \in 1..(n - 1) : m \in Nums(t)

FwCreate(t, o, label) ==
    LET n == FreeNum(t)
        e == [num |-> n, label |-> label, active |-> TRUE]
        LessN(x) == x.num < n
        MoreN(x) == x.num > n
    IN  [table |-> SelectSeq(t, LessN) \o <<e>> \o SelectSeq(t, MoreN), order |-> <<n>> \o o]

\* --bootnum X --delete-bootnum: the entry leaves the table and BootOrder.
FwDelete(t, o, bootnum) ==
    LET KeepE(x) == Bootnum(x.num) # bootnum
        KeepN(n) == Bootnum(n) # bootnum
    IN  [table |-> SelectSeq(t, KeepE), order |-> SelectSeq(o, KeepN)]

\* --bootnum X --inactive: the entry stays, marked inactive.
FwInactive(t, o, bootnum) ==
    [table |-> [i \in 1..Len(t) |->
                   IF Bootnum(t[i].num) = bootnum THEN [t[i] EXCEPT !.active = FALSE] ELSE t[i]],
     order |-> o]

\* ------------------------------------------------------- argument vectors
Device == "/dev/sda"
Partition == "1"

CmdReport == <<"efibootmgr">>

CmdCreate(label, loader, unicode) ==
    <<"efibootmgr", "--create", "--label", label, "--loader", loader, "--unicode", unicode>>

CmdDelete(bootnum) == <<"efibootmgr", "--bootnum", bootnum, "--delete-bootnum">>

CmdInactive(bootnum) == <<"efibootmgr", "--bootnum", bootnum, "--inactive">>

IsCreate(cmd) == Len(cmd) >= 8 /\ cmd[2] = "--create"
IsDelete(cmd) == Len(cmd) >= 4 /\ cmd[2] = "--bootnum" /\ cmd[4] = "--delete-bootnum"
IsInactive(cmd) == Len(cmd) >= 4 /\ cmd[2] = "--bootnum" /\ cmd[4] = "--inactive"

\* What the firmware holds after a successful command.
FwApply(cmd, t, o) ==
    CASE IsCreate(cmd) -> FwCreate(t, o, cmd[4])
      [] IsDelete(cmd) -> FwDelete(t, o, cmd[3])
      [] IsInactive(cmd) -> FwInactive(t, o, cmd[3])
      [] OTHER -> [table |-> t, order |-> o]

\* The diagnostics a failing invocation may print (sequences of characters).
Stderrs == {<<"e", "\n">>, <<"e">>}

\* subprocess.run: the outcomes of one invocation.  A command naming a boot
\* number that does not exist can only fail; a failure changes nothing.
Run(cmd, t, o) ==
    LET ok == (IsDelete(cmd) \/ IsInactive(cmd)) => \E n \in Nums(t) : Bootnum(n) = cmd[3]
        fw == FwApply(cmd, t, o)
    IN  {[returncode |-> 0, stderr |-> <<>>, stdout |-> Report(fw.table, fw.order),
          table |-> fw.table, order |-> fw.order] : x \in IF ok THEN {0} ELSE {}}
        \cup
        {[returncode |-> 1, stderr |-> e, stdout |-> <<>>, table |-> t, order |-> o] :
          e \in Stderrs}

\* ------------------------------------------------------- the configuration
StrV(x) == [t |-> "str", s |-> x]
IntV(x) == [t |-> "int", n |-> x]
BoolV(x) == [t |-> "bool", b |-> x]
TreeV(x) == [t |-> "tree", items |-> x]
Item(key, val) == [k |-> key, v |-> val]

\* The tables bootmgr.toml may hold for a label; B may lack its loader.
ConfigEntries(label) ==
    CASE label = "A" ->
           {<<Item("loader", StrV("/a.efi")), Item("quiet", BoolV(TRUE)),
              Item("console", TreeV(<<Item("enable", BoolV(TRUE)), Item("speed", IntV(115200))>>))>>}
      [] label = "B" ->
           {<<Item("root", StrV("/dev/sda2")), Item("loader", StrV("/b.efi")),
              Item("splash", BoolV(FALSE))>>,
            <<Item("root", StrV("/dev/sda2")), Item("splash", BoolV(FALSE))>>}
      [] OTHER -> {<<Item("loader", StrV("/c.efi"))>>}

Injective(f) == \A i, j \in DOMAIN f : f[i] = f[j] => i = j

\* Every bootmgr.toml over CfgLabels, in every declaration order.
Configs ==
    UNION {{c \in [1..n -> UNION {{[label |-> l, entry |-> e] : e \in ConfigEntries(l)} :
                                    l \in CfgLabels}] :
              Injective(Keys(c))} : n \in 0..Cardinality(CfgLabels)}

\* params.pop('loader')
HasParam(params, key) == \E i \in 1..Len(params) : params[i].k = key

Pop(params, key) ==
    LET NotKey(it) == it.k # key
    IN  [value |-> params[CHOOSE i \in 1..Len(params) : params[i].k = key].v.s,
         rest |-> SelectSeq(params, NotKey)]

\* The [label, loader, unicode] of the creates of a log, in the order issued.
Creates(l) ==
    LET IsC(e) == IsCreate(e.cmd)
        cs == SelectSeq(l, IsC)
    IN  [i \in 1..Len(cs) |-> <<cs[i].cmd[4], cs[i].cmd[6], cs[i].cmd[8]>>]

\* The labels of the entries of BootOrder, in boot order.
BootLabels(t, o) ==
    [i \in 1..Len(o) |-> t[CHOOSE j \in 1..Len(t) : t[j].num = o[i]].label]

\* -------------------------------------------------------------- the engine
VARIABLES
    table,        \* firmware: the boot entries
    bootOrder,    \* firmware: BootOrder
    config,       \* self.config, loaded from bootmgr.toml
    full_delete,  \* self.full_delete
    state,        \* self.state
    pc,           \* "start", "delete_loop", "create_loop", "done", "failed", "crashed"
    todo,         \* the labels the running loop of sync has still to visit
    log,          \* history: the invocations of this run, in order
    error,        \* the message main() logs for a BootMgrError
    run,          \* which run of main() this is
    start,        \* history: the firmware when this run began
    history,      \* history: the creates and the final boot order of each finished run
    report,       \* the text given to the parser alone (SpecParse)
    tree,         \* the parameter tree given to dump alone (SpecDump)
    tokens,       \* dump: list(_dump(params))
    dumped,       \* dump: its result
    loaded        \* history: the sources load_config has merged (SpecConfig)

\* The variables of the specifications of the pure functions.
pure == <<tree, tokens, dumped, loaded>>

vars == <<table, bootOrder, config, full_delete, state, pc, todo, log, error, run, start, history,
          report, pure>>

\* What these variables hold while the pure functions are not exercised.
PureIdle ==
    /\ tree = <<>>
    /\ tokens = <<>>
    /\ dumped = ""
    /\ loaded = <<>>

\* Mutant of Argv: the command is passed on as the caller built it.
ArgvUnscoped(cmd) == cmd

\* execute: every command is scoped to the disk and partition.
Argv(cmd) == cmd \o <<"--disk", Device>> \o <<"--part", Partition>>

\* Mutant of Raised: the exit status is ignored.
NeverRaised(proc) == FALSE

\* execute: a non-zero exit raises BootMgrError.
Raised(proc) == proc.returncode # 0

\* execute: msg = proc.stderr; msg = msg[:-1]
ErrorMessage(stderr) == SubSeq(stderr, 1, Len(stderr) - 1)

\* Mutant of Refresh: the state read at construction is kept.
RefreshStale(old, stdout) == old

\* execute: self.state = parse_efibootmgr(proc)
Refresh(old, stdout) == parse_efibootmgr(stdout)

\* Mutants of Removal: every entry is deleted; no entry is deleted.
RemovalAlwaysDelete(label, cfg, fd) == "delete"
RemovalAlwaysDeactivate(label, cfg, fd) == "deactivate"

\* sync: what happens to an existing entry.
Removal(label, cfg, fd) ==
    IF HasKey(cfg, label) THEN "delete"
    ELSE IF fd THEN "delete"
    ELSE "deactivate"

\* Mutant of DeleteOrder: the state is walked front to back.
DeleteOrderForward(st) == Keys(st)

\* sync: for label in reversed(self.state)
DeleteOrder(st) == Reverse(Keys(st))

\* Mutant of CreateOrder: the entries are created in declared order.
CreateOrderForward(cfg) == Keys(cfg)

\* sync: for label in reversed(self.config)
CreateOrder(cfg) == Reverse(Keys(cfg))

\* One call of execute(cmd) on behalf of `label`, the utility answering proc;
\* `next` is where the caller continues when execute returns.
Execute(cmd, label, proc, next) ==
    /\ log' = Append(log, [cmd |-> Argv(cmd), label |-> label, returncode |-> proc.returncode,
                           stderr |-> proc.stderr, stdout |-> proc.stdout])
    /\ table' = proc.table
    /\ bootOrder' = proc.order
    /\ IF Raised(proc)
       THEN /\ error' = ErrorMessage(proc.stderr)
            /\ state' = state
            /\ pc' = "failed"
       ELSE /\ error' = error
            /\ state' = Refresh(state, proc.stdout)
            /\ pc' = next

Init ==
    \E S \in {T \in SUBSET (1..MaxNum) : Cardinality(T) <= MaxEntries} :
      \E f \in [S -> Labels] :
        \E o \in UNION {[1..n -> S] : n \in 0..Cardinality(S)} :
          /\ Injective(o)
          /\ table = [i \in 1..Cardinality(S) |->
                        [num |-> SortedNums(S)[i], label |-> f[SortedNums(S)[i]], active |-> TRUE]]
          /\ bootOrder = o
          /\ start = [table |-> table, order |-> o]
          /\ config \in Configs
          /\ full_delete \in BOOLEAN
          /\ state = <<>>
          /\ pc = "start"
          /\ todo = <<>>
          /\ log = <<>>
          /\ error = <<>>
          /\ run = 1
          /\ history = <<>>
          /\ report = <<>>
          /\ PureIdle

\* BootMgr.__init__: load_config, then load_state (a bare efibootmgr); main
\* then calls sync, whose first loop walks the state as it is now.
LoadState ==
    /\ pc = "start"
    /\ \E proc \in Run(Argv(CmdReport), table, bootOrder) :
         /\ Execute(CmdReport, "", proc, "delete_loop")
         /\ todo' = IF Raised(proc) THEN <<>> ELSE DeleteOrder(state')
    /\ UNCHANGED <<config, full_delete, run, start, history, report, pure>>

\* sync, first loop: delete(label) or deactivate(label).
SyncRemove ==
    /\ pc = "delete_loop"
    /\ todo # <<>>
    /\ LET label == Head(todo)
       IN  IF ~HasKey(state, label)
           THEN /\ pc' = "crashed"
                /\ UNCHANGED <<table, bootOrder, state, todo, log, error>>
           ELSE LET bootnum == Get(state, label)
                    cmd == IF Removal(label, config, full_delete) = "delete"
                           THEN CmdDelete(bootnum) ELSE CmdInactive(bootnum)
                IN  \E proc \in Run(Argv(cmd), table, bootOrder) :
                      /\ Execute(cmd, label, proc, "delete_loop")
                      /\ todo' = Tail(todo)
    /\ UNCHANGED <<config, full_delete, run, start, history, report, pure>>

\* sync: the first loop is over, the second starts.
SyncRecreate ==
    /\ pc = "delete_loop"
    /\ todo = <<>>
    /\ pc' = "create_loop"
    /\ todo' = CreateOrder(config)
    /\ UNCHANGED <<table, bootOrder, config, full_delete, state, log, error, run, start, history,
                 report, pure>>

\* sync, second loop: create(label).
SyncCreate ==
    /\ pc = "create_loop"
    /\ todo # <<>>
    /\ LET label == Head(todo)
           params == Get(config, label)
       IN  IF ~HasParam(params, "loader")
           THEN /\ pc' = "crashed"
                /\ UNCHANGED <<table, bootOrder, state, todo, log, error>>
           ELSE LET popped == Pop(params, "loader")
                    cmd == CmdCreate(label, popped.value, dump(popped.rest))
                IN  \E proc \in Run(Argv(cmd), table, bootOrder) :
                      /\ Execute(cmd, label, proc, "create_loop")
                      /\ todo' = Tail(todo)
    /\ UNCHANGED <<config, full_delete, run, start, history, report, pure>>

\* sync returns and main exits with 0.
SyncReturn ==
    /\ pc = "create_loop"
    /\ todo = <<>>
    /\ pc' = "done"
    /\ history' = Append(history, [creates |-> Creates(log),
                                    order |-> BootLabels(table, bootOrder)])
    /\ UNCHANGED <<table, bootOrder, config, full_delete, state, todo, log, error, run, start,
                 report, pure>>

\* The program is run again on the firmware the last run left, the
\* configuration unchanged.
Rerun ==
    /\ pc = "done"
    /\ run < MaxRuns
    /\ run' = run + 1
    /\ pc' = "start"
    /\ state' = <<>>
    /\ log' = <<>>
    /\ start' = [table |-> table, order |-> bootOrder]
    /\ UNCHANGED <<table, bootOrder, config, full_delete, todo, error, history, report, pure>>

Next ==
    \/ LoadState
    \/ SyncRemove
    \/ SyncRecreate
    \/ SyncCreate
    \/ SyncReturn
    \/ Rerun

Spec == Init /\ [][Next]_vars

\* ------------------------------------------------------- the parser alone
\* The parser on any text: up to MaxLines entry lines and other lines in any
\* order, labels and ids repeated or not, with or without an order line,
\* which may stand anywhere and may list any of the ids, each at most once.
ParseIds == {Bootnum(1), Bootnum(2), Bootnum(3)}

BodyLines == {EntryLine(id, l) : id \in ParseIds, l \in Labels} \cup {OtherLine}

OrderLines ==
    {OrderLine(o) : o \in {q \in UNION {[1..n -> ParseIds] : n \in 0..Cardinality(ParseIds)} :
                              Injective(q)}}

InsertAt(s, i, x) == SubSeq(s, 1, i) \o <<x>> \o SubSeq(s, i + 1, Len(s))

InitParse ==
    /\ \E n \in 0..MaxLines :
         \E b \in [1..n -> BodyLines] :
           \/ report = b
           \/ \E i \in 0..n, ol \in OrderLines : report = InsertAt(b, i, ol)
    /\ pc = "parse"
    /\ state = <<>>
    /\ table = <<>>
    /\ bootOrder = <<>>
    /\ start = [table |-> <<>>, order |-> <<>>]
    /\ config = <<>>
    /\ full_delete = FALSE
    /\ todo = <<>>
    /\ log = <<>>
    /\ error = <<>>
    /\ run = 1
    /\ history = <<>>
    /\ PureIdle

\* execute, a successful invocation having printed `report`.
ParseReport ==
    /\ pc = "parse"
    /\ state' = Refresh(state, report)
    /\ pc' = "parsed"
    /\ UNCHANGED <<table, bootOrder, config, full_delete, todo, log, error, run, start, history,
                   report, pure>>

NextParse == ParseReport

SpecParse == InitParse /\ [][NextParse]_vars

\* ---------------------------------------------------------- dump alone
\* dump on any parameter tree of at most MaxNodes keys (nested keys
\* counted), of any depth MaxNodes allows, the keys of one table distinct.
TreeKeys == {"a", "b"}

LeafValues == {BoolV(TRUE), BoolV(FALSE), StrV("x"), IntV(7)}

RECURSIVE TreesUpTo(_)
TreesUpTo(n) ==
    IF n = 0 THEN {<<>>}
    ELSE {<<>>} \cup
         UNION {UNION {UNION {{<<Item(k, v)>> \o rest :
                                 k \in {x \in TreeKeys : \A i \in 1..Len(rest) : rest[i].k # x}} :
                              rest \in TreesUpTo(n - 1 - m)} :
                       v \in (IF m = 0 THEN LeafValues ELSE {}) \cup
                             {TreeV(sub) : sub \in TreesUpTo(m)}} :
                m \in 0..(n - 1)}

InitDump ==
    /\ tree \in TreesUpTo(MaxNodes)
    /\ tokens = <<>>
    /\ dumped = ""
    /\ loaded = <<>>
    /\ pc = "dump"
    /\ report = <<>>
    /\ state = <<>>
    /\ table = <<>>
    /\ bootOrder = <<>>
    /\ start = [table |-> <<>>, order |-> <<>>]
    /\ config = <<>>
    /\ full_delete = FALSE
    /\ todo = <<>>
    /\ log = <<>>
    /\ error = <<>>
    /\ run = 1
    /\ history = <<>>

\* dump(params)
Dump ==
    /\ pc = "dump"
    /\ tokens' = _dump(tree, "")
    /\ dumped' = dump(tree)
    /\ pc' = "dumped"
    /\ UNCHANGED <<table, bootOrder, config, full_delete, state, todo, log, error, run, start,
                   history, report, tree, loaded>>

NextDump == Dump

SpecDump == InitDump /\ [][NextDump]_vars

\* ---------------------------------------------------- load_config alone
\* Every file load_config may read: tables over Labels, in every order.
Sources ==
    UNION {{c \in [1..n -> UNION {{[label |-> l, entry |-> e] : e \in ConfigEntries(l)} :
                                    l \in Labels}] :
              Injective(Keys(c))} : n \in 0..Cardinality(Labels)}

\* Mutant of update: a label already present keeps the entry it has.
RECURSIVE updateKeepFirst(_, _)
updateKeepFirst(d, other) ==
    IF other = <<>> THEN d
    ELSE updateKeepFirst(IF HasKey(d, other[1].label) THEN d
                         ELSE Append(d, other[1]), Tail(other))

\* self.config.update(config)
RECURSIVE update(_, _)
update(d, other) ==
    IF other = <<>> THEN d
    ELSE update(SetItem(d, other[1].label, other[1].entry), Tail(other))

InitConfig ==
    /\ config = <<>>
    /\ loaded = <<>>
    /\ pc = "config"
    /\ tree = <<>>
    /\ tokens = <<>>
    /\ dumped = ""
    /\ report = <<>>
    /\ state = <<>>
    /\ table = <<>>
    /\ bootOrder = <<>>
    /\ start = [table |-> <<>>, order |-> <<>>]
    /\ full_delete = FALSE
    /\ todo = <<>>
    /\ log = <<>>
    /\ error = <<>>
    /\ run = 1
    /\ history = <<>>

\* load_config(path), the file at path holding the table src.
load_config ==
    /\ pc = "config"
    /\ Len(loaded) < MaxLoads
    /\ \E src \in Sources :
         /\ config' = update(config, src)
         /\ loaded' = Append(loaded, src)
    /\ UNCHANGED <<table, bootOrder, full_delete, state, pc, todo, log, error, run, start,
                 history, report, tree, tokens, dumped>>

NextConfig == load_config

SpecConfig == InitConfig /\ [][NextConfig]_vars

\* ------------------------------------------------------ reading the history
Last(s) == s[Len(s)]

\* The state load_state observed when this run began.
Observed0 ==
    IF log # <<>> /\ log[1].returncode = 0 THEN parse_efibootmgr(log[1].stdout) ELSE <<>>

HasFlag(cmd, flag) == \E i \in 1..Len(cmd) : cmd[i] = flag

\* A reorder would pass --bootorder.
IsReorder(cmd) == HasFlag(cmd, "--bootorder")
IsMutating(cmd) == IsCreate(cmd) \/ IsDelete(cmd) \/ IsInactive(cmd) \/ IsReorder(cmd)

Desired(labels) ==
    LET InConfig(l) == HasKey(config, l)
    IN  SelectSeq(labels, InConfig)

UniqueLabels(t) == \A i, j \in 1..Len(t) : t[i].label = t[j].label => i = j

\* -------------------------------------------------------------------- C1
\* C1: fail-fast.  An invocation that exits non-zero is the last invocation
\* of its run: every invocation before the last one of the log succeeded, the
\* run is in its failed state exactly when the last invocation failed, and
\* the error it reports is that invocation's diagnostic.
C1_FailFast ==
    /\ \A i \in 1..(Len(log) - 1) : log[i].returncode = 0
    /\ (pc = "failed") <=> (log # <<>> /\ Last(log).returncode # 0)
    /\ pc = "failed" =>
         error = SubSeq(Last(log).stderr, 1, Len(Last(log).stderr) - 1)

\* The third invocation of a run, a create, failed while another create was
\* still planned.
C1_Witness ==
    /\ pc = "failed"
    /\ Len(log) = 3
    /\ IsCreate(log[3].cmd)
    /\ IsDelete(log[2].cmd)
    /\ todo # <<>>

\* -------------------------------------------------------------------- C2
\* C2: deletion policy.  When a run succeeds, every label observed at its
\* start and absent from the configuration got exactly one command on its
\* id, --inactive when full_delete is false and --delete-bootnum when it is
\* true; and while full_delete is false every entry of the initial table
\* whose label is not configured is still in the table under its number.
C2_DeletionPolicy ==
    /\ pc = "done" =>
         \A i \in 1..Len(Observed0) :
           ~HasKey(config, Observed0[i].label) =>
             LET ops == {j \in 1..Len(log) :
                           HasFlag(log[j].cmd, "--bootnum") /\ log[j].cmd[3] = Observed0[i].entry}
             IN  /\ Cardinality(ops) = 1
                 /\ \A j \in ops :
                      /\ log[j].label = Observed0[i].label
                      /\ IF full_delete THEN IsDelete(log[j].cmd) ELSE IsInactive(log[j].cmd)
    /\ ~full_delete =>
         \A i \in 1..Len(start.table) :
           ~HasKey(config, start.table[i].label) =>
             \E j \in 1..Len(table) :
               /\ table[j].num = start.table[i].num
               /\ table[j].label = start.table[i].label

\* A finished run that deactivated an unmanaged entry and deleted a managed
\* one: the unmanaged entry is still there, inactive.
C2_Witness ==
    /\ pc = "done"
    /\ ~full_delete
    /\ \E i \in 1..Len(log) : IsDelete(log[i].cmd)
    /\ \E i \in 1..Len(log) :
         /\ IsInactive(log[i].cmd)
         /\ ~HasKey(config, log[i].label)
         /\ \E j \in 1..Len(table) :
              /\ Bootnum(table[j].num) = log[i].cmd[3]
              /\ table[j].label = log[i].label
              /\ ~table[j].active

\* -------------------------------------------------------------------- C3
\* C3 as stated: an entry whose label is configured and was observed at the
\* start of the run is neither deleted nor created, and --create is used
\* only for labels that were not observed.
C3_UpdateInPlace ==
    \A j \in 1..Len(log) :
      /\ (HasKey(config, log[j].label) /\ HasKey(Observed0, log[j].label)) =>
           (~IsCreate(log[j].cmd) /\ ~IsDelete(log[j].cmd))
      /\ IsCreate(log[j].cmd) => ~HasKey(Observed0, log[j].label)

\* C3, amended: when a run succeeds, every configured label that was observed
\* at its start was deleted by the id observed for it and created again
\* afterwards; every configured label got exactly one --create, and no
\* create passes an id (--bootnum) or an active flag.
C3_DeleteThenCreate ==
    pc = "done" =>
      /\ \A k \in 1..Len(config) :
           LET l == config[k].label
           IN  /\ Cardinality({j \in 1..Len(log) : IsCreate(log[j].cmd) /\ log[j].cmd[4] = l}) = 1
               /\ HasKey(Observed0, l) =>
                    \E i, j \in 1..Len(log) :
                      /\ i < j
                      /\ IsDelete(log[i].cmd)
                      /\ log[i].label = l
                      /\ log[i].cmd[3] = Get(Observed0, l)
                      /\ IsCreate(log[j].cmd)
                      /\ log[j].cmd[4] = l
      /\ \A j \in 1..Len(log) :
           IsCreate(log[j].cmd) =>
             /\ ~HasFlag(log[j].cmd, "--bootnum")
             /\ ~HasFlag(log[j].cmd, "--active")

\* A second run, right after a first one, that found both configured labels
\* in the firmware and finished.
C3_Witness ==
    /\ pc = "done"
    /\ run = 2
    /\ Len(config) = 2
    /\ \A k \in 1..Len(config) : HasKey(Observed0, config[k].label)

\* -------------------------------------------------------------------- C4
\* C4 as stated: a successful run ends with a --bootorder invocation, the
\* only one of the run.
C4_ReorderLast ==
    pc = "done" =>
      /\ log # <<>>
      /\ IsReorder(Last(log).cmd)
      /\ Cardinality({j \in 1..Len(log) : IsReorder(log[j].cmd)}) = 1

\* C4, amended: a successful run issues no --bootorder invocation; its
\* creates come after all its deletes and deactivates, one per configured
\* label in reverse declared order, so that the run ends with the create of
\* the first declared label.
C4_CreatesLast ==
    pc = "done" =>
      /\ \A j \in 1..Len(log) : ~IsReorder(log[j].cmd)
      /\ \A i, j \in 1..Len(log) : (i < j /\ IsCreate(log[i].cmd)) => IsCreate(log[j].cmd)
      /\ [i \in 1..Len(Creates(log)) |-> Creates(log)[i][1]] = Reverse(Keys(config))
      /\ config # <<>> => (IsCreate(Last(log).cmd) /\ Last(log).cmd[4] = config[1].label)

\* A finished run with two configured labels that first removed an entry.
C4_Witness ==
    /\ pc = "done"
    /\ Len(config) = 2
    /\ Len(log) >= 4
    /\ IsDelete(log[2].cmd) \/ IsInactive(log[2].cmd)

\* -------------------------------------------------------------------- C5
\* C5: after a successful run on a firmware whose labels were unique, the
\* configured labels stand in BootOrder, and in the parsed state, in the
\* declaration order of the configuration.
C5_FinalBootOrder ==
    (pc = "done" /\ UniqueLabels(start.table)) =>
      /\ Desired(BootLabels(table, bootOrder)) = Keys(config)
      /\ Desired(Keys(state)) = Keys(config)

\* A finished run whose two configured labels stood in the opposite order in
\* the BootOrder it started from.
C5_Witness ==
    /\ pc = "done"
    /\ UniqueLabels(start.table)
    /\ Len(config) = 2
    /\ Desired(BootLabels(start.table, start.order)) = Reverse(Keys(config))

\* -------------------------------------------------------------------- C6
\* C6 as stated: idempotence, for every firmware the first run may start
\* from.  A run that follows a finished run issues creates for the
\* same labels with the same label, loader and serialized parameters, in the
\* same sequence, and leaves the configured labels in the same boot order.
C6_Idempotent ==
    (pc = "done" /\ run >= 2) =>
      /\ Creates(log) = history[run - 1].creates
      /\ Desired(BootLabels(table, bootOrder)) = Desired(history[run - 1].order)

\* -------------------------------------------------------------------- C7
\* C7: after a successful invocation the state is the parse of its report,
\* and the id a delete or deactivate passes is the one the report of the
\* invocation before it gives for the label.
C7_FreshObservation ==
    /\ (log # <<>> /\ Last(log).returncode = 0) => state = parse_efibootmgr(Last(log).stdout)
    /\ \A i \in 2..Len(log) :
         (IsDelete(log[i].cmd) \/ IsInactive(log[i].cmd)) =>
           LET seen == parse_efibootmgr(log[i - 1].stdout)
           IN  /\ log[i - 1].returncode = 0
               /\ HasKey(seen, log[i].label)
               /\ log[i].cmd[3] = Get(seen, log[i].label)

\* A delete issued as the third invocation, after a report and a first
\* delete that changed the table; it succeeded and left the table empty.
C7_Witness ==
    /\ Len(log) = 3
    /\ IsDelete(log[2].cmd)
    /\ IsDelete(log[3].cmd)
    /\ log[3].returncode = 0
    /\ log[2].stdout # log[1].stdout
    /\ state = <<>>

\* -------------------------------------------------------------------- C8
\* C8 as stated: no mutating command is issued for a configured label whose
\* table lacks the loader key.
C8_MissingLoaderFailsFirst ==
    \A j \in 1..Len(log) :
      (IsMutating(log[j].cmd) /\ HasKey(config, log[j].label)) =>
        HasParam(Get(config, log[j].label), "loader")

\* ---------------------------------------------------------- C9 and C10
IsEntryLine(line) == line.kind = "entry"
IsOrderLine(line) == line.kind = "order"

EntryLinesOf(r) == SelectSeq(r, IsEntryLine)
OrderLinesOf(r) == SelectSeq(r, IsOrderLine)

\* The entry lines carry pairwise distinct labels and pairwise distinct ids.
UniqueReport(r) ==
    \A i, j \in 1..Len(EntryLinesOf(r)) :
      (\/ EntryLinesOf(r)[i].label = EntryLinesOf(r)[j].label
       \/ EntryLinesOf(r)[i].id = EntryLinesOf(r)[j].id) => i = j

AsPairs(ents) == [i \in 1..Len(ents) |-> [label |-> ents[i].label, entry |-> ents[i].id]]

\* The entries whose id the order line lists, in the order it lists them.
Listed(r) ==
    LET ents == EntryLinesOf(r)
        ord == OrderLinesOf(r)[1].ids
        Known(id) == \E i \in 1..Len(ents) : ents[i].id = id
        ids == SelectSeq(ord, Known)
    IN  AsPairs([i \in 1..Len(ids) |-> ents[CHOOSE j \in 1..Len(ents) : ents[j].id = ids[i]]])

\* The entries whose id the order line does not list, in report order.
Unlisted(r) ==
    LET ord == OrderLinesOf(r)[1].ids
        Absent(line) == \A i \in 1..Len(ord) : ord[i] # line.id
    IN  AsPairs(SelectSeq(EntryLinesOf(r), Absent))

\* C9 as stated: with an order line, the parsed map lists the entries the
\* order line names, in its order, and after them the entries it does not
\* name, in report order.
C9_UnlistedAtEnd ==
    (pc = "parsed" /\ UniqueReport(report) /\ Len(OrderLinesOf(report)) = 1) =>
      state = Listed(report) \o Unlisted(report)

\* C10: for a report of distinct labels and ids, an order line that names
\* every id makes the parsed map follow the order line, wherever it stands
\* and whatever the order of the entry lines; without an order line the map
\* follows the report.
C10_CompleteOrder ==
    (pc = "parsed" /\ UniqueReport(report)) =>
      /\ (Len(OrderLinesOf(report)) = 1 /\ Unlisted(report) = <<>>) => state = Listed(report)
      /\ OrderLinesOf(report) = <<>> => state = AsPairs(EntryLinesOf(report))

\* Three entries with the order line between them, which the parse put in
\* an order that is not the one of the report.
C10_Witness ==
    /\ pc = "parsed"
    /\ UniqueReport(report)
    /\ Len(report) = 4
    /\ Len(EntryLinesOf(report)) = 3
    /\ IsOrderLine(report[2])
    /\ Len(report[2].ids) = 3
    /\ state # AsPairs(EntryLinesOf(report))
    /\ Keys(state)[1] = report[4].label

\* --------------------------------------------------------- C11 and C12
\* What a leaf contributes, its path apart.
LeafForm(k, v) ==
    CASE v.t = "bool" /\ v.b -> k
      [] v.t = "bool" /\ ~v.b -> "no" \o k
      [] v.t = "int" -> k \o "=" \o ToString(v.n)
      [] OTHER -> k \o "=" \o v.s

\* The leaves of a tree in declared order, depth first, each with the
\* dot-joined path of all the keys enclosing it, its depth and its form.
RECURSIVE Leaves(_, _, _)
Leaves(items, path, depth) ==
    IF items = <<>> THEN <<>>
    ELSE LET k == Head(items).k
             v == Head(items).v
             here == IF v.t = "tree"
                     THEN Leaves(v.items, path \o k \o ".", depth + 1)
                     ELSE <<[path |-> path, depth |-> depth,
                             form |-> LeafForm(k, v)]>>
         IN  here \o Leaves(Tail(items), path, depth)

\* The dot-joined paths of at most n keys.
RECURSIVE PathsUpTo(_)
PathsUpTo(n) ==
    IF n = 0 THEN {""}
    ELSE {""} \cup {p \o k \o "." : p \in PathsUpTo(n - 1), k \in TreeKeys}

\* C11 as stated: every token carries the dot-joined path of all the keys
\* that enclose its leaf.
C11_FullPath ==
    pc = "dumped" =>
      tokens = [i \in 1..Len(Leaves(tree, "", 0)) |->
                  Leaves(tree, "", 0)[i].path \o Leaves(tree, "", 0)[i].form]

\* C12: dump emits one token per leaf, in declared order, depth first; the
\* token of a top-level leaf is k, no + k or k=v, the token of a nested leaf
\* is that form behind a dotted prefix; the result is the tokens joined by
\* single spaces.
C12_TokensInOrder ==
    pc = "dumped" =>
      LET leaves == Leaves(tree, "", 0)
      IN  /\ Len(tokens) = Len(leaves)
          /\ \A i \in 1..Len(leaves) :
               /\ leaves[i].depth = 0 => tokens[i] = leaves[i].form
               /\ \E p \in PathsUpTo(leaves[i].depth) : tokens[i] = p \o leaves[i].form
          /\ dumped = Join(tokens, " ")
          /\ tokens = <<>> => dumped = ""
          /\ Len(tokens) = 2 => dumped = tokens[1] \o " " \o tokens[2]

\* A tree declared b before a, b a table holding a false and a scalar leaf:
\* three tokens, in that order.
C12_Witness ==
    /\ pc = "dumped"
    /\ Len(tree) = 2
    /\ tree[1].k = "b"
    /\ tree[1].v.t = "tree"
    /\ tree[2].k = "a"
    /\ tokens = <<"b.noa", "b.b=7", "a">>
    /\ dumped = "b.noa b.b=7 a"

\* ------------------------------------------------------------------- C13
Count(cmd, flag) == Cardinality({i \in 1..Len(cmd) : cmd[i] = flag})

\* C13: every argument vector handed to the utility starts with efibootmgr
\* and ends with --disk <device> --part <partition>, each flag once.
C13_CommandShape ==
    \A i \in 1..Len(log) :
      LET cmd == log[i].cmd
          n == Len(cmd)
      IN  /\ n >= 5
          /\ cmd[1] = "efibootmgr"
          /\ SubSeq(cmd, n - 3, n) = <<"--disk", Device, "--part", Partition>>
          /\ Count(cmd, "--disk") = 1
          /\ Count(cmd, "--part") = 1

\* A run that handed a bare report, a delete, a deactivate and a create to
\* the utility.
C13_Witness ==
    /\ \E i \in 1..Len(log) : IsDelete(log[i].cmd)
    /\ \E i \in 1..Len(log) : IsInactive(log[i].cmd)
    /\ \E i \in 1..Len(log) : IsCreate(log[i].cmd)
    /\ Len(log[1].cmd) = 5

\* ------------------------------------------------------------------- C15
\* The text without its trailing newline, if it has one.
StripNewline(text) ==
    IF text # <<>> /\ text[Len(text)] = "\n" THEN SubSeq(text, 1, Len(text) - 1) ELSE text

\* C15 as stated: the error of a failed run is the diagnostic of the failing
\* invocation, verbatim but for a trailing newline.
C15_ErrorVerbatim ==
    pc = "failed" => error = StripNewline(Last(log).stderr)

\* ------------------------------------------------------------------- C16
\* C16: the invocations of a successful run are a bare report, then one
\* delete or deactivate per label observed by that report, in reverse
\* observed order, then one create per configured label, in reverse declared
\* order, and nothing else.
C16_PhaseOrder ==
    pc = "done" =>
      LET n == Len(Observed0)
          m == Len(config)
      IN  /\ Len(log) = 1 + n + m
          /\ log[1].cmd = <<"efibootmgr", "--disk", Device, "--part", Partition>>
          /\ \A i \in 1..n :
               /\ IsDelete(log[1 + i].cmd) \/ IsInactive(log[1 + i].cmd)
               /\ log[1 + i].label = Observed0[n + 1 - i].label
               /\ log[1 + i].cmd[3] = Observed0[n + 1 - i].entry
          /\ \A i \in 1..m :
               /\ IsCreate(log[1 + n + i].cmd)
               /\ log[1 + n + i].cmd[4] = config[m + 1 - i].label

\* A finished run that observed two labels and had two to create.
C16_Witness ==
    /\ pc = "done"
    /\ Len(Observed0) = 2
    /\ Len(config) = 2
    /\ Len(log) = 5

\* ------------------------------------------------------------------- C17
LabelCount(t, l) == Cardinality({i \in 1..Len(t) : t[i].label = l})

Unmanaged(t) ==
    {[num |-> t[i].num, label |-> t[i].label] : i \in {j \in 1..Len(t) : ~HasKey(config, t[j].label)}}

\* C17: convergence.  After a successful run on a firmware whose labels were
\* unique the table holds exactly one entry per configured label; the other
\* entries are none when full_delete is true, and the initial unmanaged
\* entries under their numbers when it is false.
C17_Convergence ==
    (pc = "done" /\ UniqueLabels(start.table)) =>
      /\ \A k \in 1..Len(config) : LabelCount(table, config[k].label) = 1
      /\ Unmanaged(table) = IF full_delete THEN {} ELSE Unmanaged(start.table)

\* A finished run, full_delete false, on a firmware that held a configured
\* and an unmanaged entry, with one more label to create.
C17_Witness ==
    /\ pc = "done"
    /\ UniqueLabels(start.table)
    /\ ~full_delete
    /\ Unmanaged(start.table) # {}
    /\ \E k \in 1..Len(config) : LabelCount(start.table, config[k].label) = 1
    /\ \E k \in 1..Len(config) : LabelCount(start.table, config[k].label) = 0

\* ------------------------------------------------------------------- C18
\* C18 as stated: after a successful run, whatever the firmware held, each
\* configured label is carried by exactly one entry, and with full_delete
\* true no entry carries an unconfigured label.
C18_DuplicateLabels ==
    pc = "done" =>
      /\ \A k \in 1..Len(config) : LabelCount(table, config[k].label) = 1
      /\ full_delete => Unmanaged(table) = {}

\* ------------------------------------------------------------------- C19
Configured(t) == {config[k].label : k \in {j \in 1..Len(config) : LabelCount(t, config[j].label) > 0}}

Deleted(l) ==
    \E i \in 1..Len(log) : IsDelete(log[i].cmd) /\ log[i].label = l /\ log[i].returncode = 0

Created(l) ==
    \E i \in 1..Len(log) : IsCreate(log[i].cmd) /\ log[i].label = l /\ log[i].returncode = 0

\* C19 as stated: when a run aborts on a failed invocation, every configured
\* label that had an entry before the run still has one.
C19_NoLossOnAbort ==
    pc = "failed" => \A l \in Configured(start.table) : LabelCount(table, l) > 0

\* C19, amended: nothing is rolled back.  When a run aborts on a failed
\* invocation, a configured label has the entries it had before the run,
\* less the one whose delete succeeded, plus the one whose create succeeded;
\* and once the failing invocation is a create, every configured label that
\* had an entry has had one deleted.
C19_PrefixInEffect ==
    pc = "failed" =>
      /\ \A k \in 1..Len(config) :
           LET l == config[k].label
           IN  LabelCount(table, l) = LabelCount(start.table, l)
                                        - (IF Deleted(l) THEN 1 ELSE 0)
                                        + (IF Created(l) THEN 1 ELSE 0)
      /\ IsCreate(Last(log).cmd) => \A l \in Configured(start.table) : Deleted(l)

\* A run that failed at a create and left a configured label, present before
\* the run, without any entry.
C19_Witness ==
    /\ pc = "failed"
    /\ IsCreate(Last(log).cmd)
    /\ \E l \in Configured(start.table) : LabelCount(table, l) = 0

\* ------------------------------------------------------------------- C20
\* C20: an invocation that exits non-zero leaves the observed state, the
\* configuration and the deletion policy as they were, and within a run the
\* observed state changes only to the parse of the output of an invocation
\* that has just succeeded.
C20_StateUnchangedOnError ==
    [][/\ (Len(log') = Len(log) + 1 /\ Last(log').returncode # 0) =>
            (state' = state /\ config' = config /\ full_delete' = full_delete)
       /\ (state' # state /\ pc' # "start") =>
            /\ Len(log') = Len(log) + 1
            /\ Last(log').returncode = 0
            /\ state' = parse_efibootmgr(Last(log').stdout)]_vars

\* A delete or create has failed while the observed state held entries.
C20_Witness ==
    /\ pc = "failed"
    /\ Len(log) >= 2
    /\ state # <<>>

\* ------------------------------------------------------------------- C14
RECURSIVE SeenLabels(_)
SeenLabels(files) ==
    IF files = <<>> THEN <<>>
    ELSE SeenLabels(SubSeq(files, 1, Len(files) - 1)) \o Keys(files[Len(files)])

\* The labels of s in the order of their first occurrence.
RECURSIVE FirstSeen(_)
FirstSeen(s) ==
    IF s = <<>> THEN <<>>
    ELSE LET r == FirstSeen(SubSeq(s, 1, Len(s) - 1))
         IN  IF \E i \in 1..Len(r) : r[i] = s[Len(s)] THEN r ELSE Append(r, s[Len(s)])

\* The entry of label l in the last file that declares it.
LastSource(l) ==
    LET i == CHOOSE j \in 1..Len(loaded) :
               /\ HasKey(loaded[j], l)
               /\ \A m \in (j + 1)..Len(loaded) : ~HasKey(loaded[m], l)
    IN  Get(loaded[i], l)

\* C14: config merge.  After any sequence of load_config calls the labels
\* of the configuration are in the order they were first seen across the
\* files, and each label's entry is the one of the last file declaring it.
C14_ConfigMerge ==
    /\ Keys(config) = FirstSeen(SeenLabels(loaded))
    /\ \A k \in 1..Len(config) : config[k].entry = LastSource(config[k].label)

\* Two files: the second declares a new label ahead of a label of the
\* first, with another entry for it.
C14_Witness ==
    /\ Len(loaded) = 2
    /\ Keys(loaded[1]) = <<"B", "A">>
    /\ Keys(loaded[2]) = <<"C", "B">>
    /\ Get(loaded[1], "B") # Get(loaded[2], "B")
    /\ Keys(config) = <<"B", "A", "C">>
    /\ Get(config, "B") = Get(loaded[2], "B")

====
